---- MODULE Spec2Model ----
(***************************************************************************)
(* A model of nilgl.py: the navigation state (camera P, T, U, motion mode, *)
(* step sizes), the command channel (script file, network socket, none),   *)
(* the command interpreter run by the idle callback, and the busy-wait     *)
(* pacing controller.                                                      *)
(*                                                                         *)
(* Numbers.  Python floats are modelled in fixed point with two units per  *)
(* 1.0: the float x is the integer 2x.  So default_step = 0.5 is 1, the    *)
(* token "10" parses to 20, one second is 2 clock units and a quarter turn *)
(* (90 degrees) is 180.  Inputs are chosen so that every square root and   *)
(* quotient the code takes is exact in this representation (axis-aligned   *)
(* view vectors, rotations by multiples of 90 degrees).                    *)
(*                                                                         *)
(* Text.  A string handed to the interpreter is a sequence of lines, each  *)
(* a sequence of whitespace-free tokens: "" is << >>, "quit" is            *)
(* << <<"quit">> >>.  c.split() is the concatenation of the lines.         *)
(*                                                                         *)
(* Errors.  A Python exception raised inside a handler ends the handler    *)
(* where it is raised; the process is then in status "error".  sys.exit    *)
(* puts it in status "exited".                                             *)
(***************************************************************************)
EXTENDS Integers, Sequences, FiniteSets, TLC

VARIABLES
    proc,     \* process id -> the module globals of that process
    now,      \* time.time (), in clock units
    stream,   \* the ordered command stream of the session (file / origin)
    sent      \* how many lines of the stream the origin has sent so far

vars == <<proc, now, stream, sent>>

\* ------------------------------------------------------------------ bounds
MaxTime == 3       \* the clock stops advancing here
MaxStream == 2     \* longest command stream
MaxCoord == 6      \* camera coordinates stay within -MaxCoord..MaxCoord
MaxEvents == 2     \* local input events, or load_keys calls, in a session

\* ------------------------------------------------------- program constants
None == -1000      \* Python's None, as a value no coordinate takes
InitialStep == 1   \* default_step = 0.5
InitialAngle == 2  \* default_angle = 1

\* --------------------------------------------------------------- utilities
Abs(a) == IF a < 0 THEN -a ELSE a

\* a / b on floats, for the exact quotients the inputs produce
Div(a, b) == IF a >= 0 THEN a \div b ELSE -((-a) \div b)

\* math.sqrt, for the perfect squares the inputs produce
sqrt(n) == CHOOSE r \in 0..(4 * MaxCoord) :
              r * r <= n /\ (r + 1) * (r + 1) > n

\* math.cos and math.sin of an angle in degrees (fixed point), for
\* multiples of a quarter turn
cos(a) == CASE a % 720 = 0   -> 1
            [] a % 720 = 180 -> 0
            [] a % 720 = 360 -> -1
            [] a % 720 = 540 -> 0

sin(a) == CASE a % 720 = 0   -> 0
            [] a % 720 = 180 -> 1
            [] a % 720 = 360 -> 0
            [] a % 720 = 540 -> -1

RECURSIVE Flatten(_)
Flatten(ls) == IF ls = << >> THEN << >> ELSE Head(ls) \o Flatten(Tail(ls))

IsPrefix(a, b) == Len(a) <= Len(b) /\ a = SubSeq(b, 1, Len(a))

\* float (w): the tokens that parse, with their values
float_table ==
    ("0" :> 0) @@ ("1" :> 2) @@ ("2" :> 4) @@ ("3" :> 6) @@ ("10" :> 20)
    @@ ("-1" :> -2) @@ ("-2" :> -4)

IsFloat(w) == w \in DOMAIN float_table
float(w) == float_table[w]

\* int (w): the tokens that parse, with their values
int_table == ("0" :> 0) @@ ("1" :> 1) @@ ("2" :> 2) @@ ("3" :> 3) @@ ("10" :> 10)

IsInt(w) == w \in DOMAIN int_table
int(w) == int_table[w]

\* ------------------------------------------------- process state, outcomes
Raise(s, exc) == [s EXCEPT !.status = "error", !.error = exc]

sys_exit(s, code) == [s EXCEPT !.status = "exited", !.exit_code = code]

Note(s, e) == [s EXCEPT !.log = Append(@, e)]

glutPostRedisplay(s) == Note(s, "redraw")

\* the state of the module after import, before init () and any call
Globals ==
    [CX |-> 0, CY |-> 0, CZ |-> 0,
     VX |-> 0, VY |-> 0, VZ |-> 20,
     UX |-> 0, UY |-> 2, UZ |-> 0,
     iCX |-> None, iCY |-> None, iCZ |-> None,
     iVX |-> None, iVY |-> None, iVZ |-> None,
     iUX |-> None, iUY |-> None, iUZ |-> None,
     default_angle |-> InitialAngle, default_step |-> InitialStep,
     pause |-> 0, motion_mode |-> "F", wait_until |-> 0,
     command_callback |-> FALSE, keyboard_callback |-> FALSE,
     cmd_table |-> << >>, key_table |-> << >>,
     saving_mode |-> FALSE, save_template |-> "frame-%5.5d.png",
     save_frame_number |-> 0, seed |-> 0, host |-> "<unknown>",
     \* where the pointer was at the last click or motion event; the names
     \* do not exist before the first click
     lastx |-> None, lasty |-> None,
     \* nil_args.play, nil_args.net, command_stream
     play |-> FALSE, net |-> FALSE,
     file_pos |-> 0,          \* lines of the script already read
     sock_buf |-> << >>,      \* lines received by the socket, not yet read
     peer |-> "open",         \* "open", "closed" (FIN seen), "reset" (error)
     \* the process
     status |-> "running", exit_code |-> 0, error |-> "",
     \* history: what the last handler did, and what has happened so far
     log |-> << >>,           \* steps of the last handler run
     last_data |-> << >>,     \* what the last poll returned
     consumed |-> << >>,      \* the word lists the interpreter was handed
     closes |-> 0,            \* close () calls on the channel's resource
     eof_seen |-> FALSE,      \* the script's end-of-file has been read
     terminal_seen |-> FALSE, \* recv reported a closed or failed connection
     first_vp |-> << >>,      \* arguments of the first set_viewpoint call
     armed_at |-> None,       \* time of the last wait_for call
     armed_for |-> 0,         \* its delay
     events |-> 0,            \* local input events, load_keys calls so far
     last_key |-> "",         \* the key of the last keyboard or cursor event
     keymap |-> << >>,        \* the lines of the last keymap file loaded
     offered |-> "",          \* the key last passed to the keyboard callback
     local_at |-> None]       \* the time of the last local input event

P(s) == <<s.CX, s.CY, s.CZ>>
T(s) == <<s.VX, s.VY, s.VZ>>
U(s) == <<s.UX, s.UY, s.UZ>>
Camera(s) == <<s.CX, s.CY, s.CZ, s.VX, s.VY, s.VZ, s.UX, s.UY, s.UZ>>
Snapshot(s) == <<s.iCX, s.iCY, s.iCZ, s.iVX, s.iVY, s.iVZ, s.iUX, s.iUY, s.iUZ>>

\* a navigation routine does arithmetic on the camera: None raises TypeError
NoCamera(s) == \E i \in 1..6 : Camera(s)[i] = None

\* ------------------------------------------------------------- navigation
fly_mode(s) == [s EXCEPT !.motion_mode = "F"]
walk_mode(s) == [s EXCEPT !.motion_mode = "W"]
view_mode(s) == [s EXCEPT !.motion_mode = "V"]

set_translation_step(s, v) == [s EXCEPT !.default_step = v]
set_rotation_step(s, v) == [s EXCEPT !.default_angle = v]

reset_viewpoint(s) ==
    fly_mode([Note(s, "reset_viewpoint") EXCEPT !.CX = s.iCX, !.CY = s.iCY, !.CZ = s.iCZ,
                       !.VX = s.iVX, !.VY = s.iVY, !.VZ = s.iVZ,
                       !.UX = s.iUX, !.UY = s.iUY, !.UZ = s.iUZ])

\* "if not iCX": None and 0 are both false
SnapshotUnset(s) == s.iCX = None \/ s.iCX = 0

set_viewpoint(s, v) ==
    LET a == [Note(s, "set_viewpoint") EXCEPT !.CX = v[1], !.CY = v[2], !.CZ = v[3],
                       !.VX = v[4], !.VY = v[5], !.VZ = v[6],
                       !.UX = v[7], !.UY = v[8], !.UZ = v[9],
                       !.first_vp = IF @ = << >> THEN v ELSE @]
    IN  IF SnapshotUnset(s)
        THEN [a EXCEPT !.iCX = v[1], !.iCY = v[2], !.iCZ = v[3],
                       !.iVX = v[4], !.iVY = v[5], !.iVZ = v[6],
                       !.iUX = v[7], !.iUY = v[8], !.iUZ = v[9]]
        ELSE a

\* move_forward that moves by the size of dist, whatever its sign
move_forward_unsigned(s, dist) ==
    IF NoCamera(s) THEN Raise(s, "TypeError") ELSE
    LET dx == s.VX - s.CX
        dy == s.VY - s.CY
        dz == s.VZ - s.CZ
        veclen == sqrt(dx * dx + dy * dy + dz * dz)
        walk == s.motion_mode = "W"
    IN  IF veclen = 0 THEN Raise(s, "ZeroDivisionError") ELSE
        [s EXCEPT !.CX = @ + Div(Abs(dist) * dx, veclen),
                  !.CY = IF walk THEN @ ELSE @ + Div(Abs(dist) * dy, veclen),
                  !.CZ = @ + Div(Abs(dist) * dz, veclen),
                  !.VX = @ + Div(Abs(dist) * dx, veclen),
                  !.VY = IF walk THEN @ ELSE @ + Div(Abs(dist) * dy, veclen),
                  !.VZ = @ + Div(Abs(dist) * dz, veclen)]

\* move_forward without the test for walk mode
move_forward_fly(s, dist) ==
    IF NoCamera(s) THEN Raise(s, "TypeError") ELSE
    LET dx == s.VX - s.CX
        dy == s.VY - s.CY
        dz == s.VZ - s.CZ
        veclen == sqrt(dx * dx + dy * dy + dz * dz)
    IN  IF veclen = 0 THEN Raise(s, "ZeroDivisionError") ELSE
        [s EXCEPT !.CX = @ + Div(dist * dx, veclen),
                  !.CY = @ + Div(dist * dy, veclen),
                  !.CZ = @ + Div(dist * dz, veclen),
                  !.VX = @ + Div(dist * dx, veclen),
                  !.VY = @ + Div(dist * dy, veclen),
                  !.VZ = @ + Div(dist * dz, veclen)]

move_forward(s, dist) ==
    IF NoCamera(s) THEN Raise(s, "TypeError") ELSE
    LET dx == s.VX - s.CX
        dy == s.VY - s.CY
        dz == s.VZ - s.CZ
        veclen == sqrt(dx * dx + dy * dy + dz * dz)
        walk == s.motion_mode = "W"
    IN  IF veclen = 0 THEN Raise(s, "ZeroDivisionError") ELSE
        [s EXCEPT !.CX = @ + Div(dist * dx, veclen),
                  !.CY = IF walk THEN @ ELSE @ + Div(dist * dy, veclen),
                  !.CZ = @ + Div(dist * dz, veclen),
                  !.VX = @ + Div(dist * dx, veclen),
                  !.VY = IF walk THEN @ ELSE @ + Div(dist * dy, veclen),
                  !.VZ = @ + Div(dist * dz, veclen)]

\* lat = asin (dy / veclen), lon = atan2 (dz, dx), direc = lon - pi/2:
\* cos (lat) * cos (direc) = dz / veclen, cos (lat) * sin (direc) = -dx / veclen
move_left(s, dist) ==
    IF NoCamera(s) THEN Raise(s, "TypeError") ELSE
    LET dx == s.VX - s.CX
        dy == s.VY - s.CY
        dz == s.VZ - s.CZ
        veclen == sqrt(dx * dx + dy * dy + dz * dz)
    IN  IF veclen = 0 THEN Raise(s, "ZeroDivisionError") ELSE
        [s EXCEPT !.CX = @ + Div(dist * dz, veclen),
                  !.CZ = @ - Div(dist * dx, veclen),
                  !.VX = @ + Div(dist * dz, veclen),
                  !.VZ = @ - Div(dist * dx, veclen)]

\* move_up without the test for walk mode
move_up_fly(s, dist) ==
    IF NoCamera(s) THEN Raise(s, "TypeError")
    ELSE [s EXCEPT !.CY = @ + dist, !.VY = @ + dist]

move_up(s, dist) ==
    IF s.motion_mode # "W"
    THEN IF NoCamera(s) THEN Raise(s, "TypeError")
         ELSE [s EXCEPT !.CY = @ + dist, !.VY = @ + dist]
    ELSE s

\* veclen * cos (lat) * cos (lon + a) = dx * cos (a) - dz * sin (a)
\* veclen * cos (lat) * sin (lon + a) = dx * sin (a) + dz * cos (a)
\* rotate_horizontally that turns the same way whatever the sign of angle
rotate_horizontally_unsigned(s, angle) ==
    IF NoCamera(s) THEN Raise(s, "TypeError") ELSE
    IF s.motion_mode = "V"
    THEN LET dx == s.CX - s.VX
             dz == s.CZ - s.VZ
         IN  [s EXCEPT !.CX = s.VX + dx * cos(Abs(angle)) - dz * sin(Abs(angle)),
                       !.CZ = s.VZ + dx * sin(Abs(angle)) + dz * cos(Abs(angle))]
    ELSE LET a == -Abs(angle)
             dx == s.VX - s.CX
             dz == s.VZ - s.CZ
         IN  [s EXCEPT !.VX = s.CX + dx * cos(a) - dz * sin(a),
                       !.VZ = s.CZ + dx * sin(a) + dz * cos(a)]

rotate_horizontally(s, angle) ==
    IF NoCamera(s) THEN Raise(s, "TypeError") ELSE
    IF s.motion_mode = "V"
    THEN LET dx == s.CX - s.VX
             dy == s.CY - s.VY
             dz == s.CZ - s.VZ
         IN  IF dx = 0 /\ dy = 0 /\ dz = 0 THEN Raise(s, "ZeroDivisionError")
             ELSE [s EXCEPT !.CX = s.VX + dx * cos(angle) - dz * sin(angle),
                            !.CZ = s.VZ + dx * sin(angle) + dz * cos(angle)]
    ELSE LET a == -angle
             dx == s.VX - s.CX
             dy == s.VY - s.CY
             dz == s.VZ - s.CZ
         IN  IF dx = 0 /\ dy = 0 /\ dz = 0 THEN Raise(s, "ZeroDivisionError")
             ELSE [s EXCEPT !.VX = s.CX + dx * cos(a) - dz * sin(a),
                            !.VZ = s.CZ + dx * sin(a) + dz * cos(a)]

\* with lat = asin (dy / veclen) and h = veclen * cos (lat):
\* (dx / cos (lat)) * cos (lat + a) = dx * cos (a) - (dx * dy / h) * sin (a)
\* veclen * sin (lat + a) = dy * cos (a) + h * sin (a)
\* looking vertically, dx = dz = 0 and both horizontal terms are 0
RotatedVertically(dx, dy, dz, a) ==
    LET h == sqrt(dx * dx + dz * dz)
    IN  <<IF h = 0 THEN 0 ELSE dx * cos(a) - Div(dx * dy, h) * sin(a),
          dy * cos(a) + h * sin(a),
          IF h = 0 THEN 0 ELSE dz * cos(a) - Div(dz * dy, h) * sin(a)>>

\* rotate_vertically that turns the up vector with the view
rotate_vertically_with_up(s, angle) ==
    IF NoCamera(s) THEN Raise(s, "TypeError") ELSE
    LET r == RotatedVertically(s.VX - s.CX, s.VY - s.CY, s.VZ - s.CZ, angle)
        u == RotatedVertically(s.UX, s.UY, s.UZ, angle)
    IN  [s EXCEPT !.VX = s.CX + r[1], !.VY = s.CY + r[2], !.VZ = s.CZ + r[3],
                  !.UX = u[1], !.UY = u[2], !.UZ = u[3]]

\* rotate_vertically that swings the look-at point in every motion mode
rotate_vertically_about_P(s, angle) ==
    IF NoCamera(s) THEN Raise(s, "TypeError") ELSE
    LET dx == s.VX - s.CX
        dy == s.VY - s.CY
        dz == s.VZ - s.CZ
        r == RotatedVertically(dx, dy, dz, angle)
    IN  IF dx = 0 /\ dy = 0 /\ dz = 0 THEN Raise(s, "ZeroDivisionError")
        ELSE [s EXCEPT !.VX = s.CX + r[1], !.VY = s.CY + r[2], !.VZ = s.CZ + r[3]]

rotate_vertically(s, angle) ==
    IF NoCamera(s) THEN Raise(s, "TypeError") ELSE
    IF s.motion_mode = "V"
    THEN LET dx == s.CX - s.VX
             dy == s.CY - s.VY
             dz == s.CZ - s.VZ
             r == RotatedVertically(dx, dy, dz, angle)
         IN  IF dx = 0 /\ dy = 0 /\ dz = 0 THEN Raise(s, "ZeroDivisionError")
             ELSE [s EXCEPT !.CX = s.VX + r[1], !.CZ = s.VZ + r[3],
                            !.CY = s.VY + r[2]]
    ELSE LET dx == s.VX - s.CX
             dy == s.VY - s.CY
             dz == s.VZ - s.CZ
             r == RotatedVertically(dx, dy, dz, angle)
         IN  IF dx = 0 /\ dy = 0 /\ dz = 0 THEN Raise(s, "ZeroDivisionError")
             ELSE [s EXCEPT !.VX = s.CX + r[1], !.VZ = s.CZ + r[3],
                            !.VY = s.CY + r[2]]

\* ----------------------------------------------------------------- pacing
\* wait_for with the deadline taken from the delay alone
wait_for_from_zero(s, t, delay) ==
    [s EXCEPT !.wait_until = delay, !.armed_at = t, !.armed_for = delay]

wait_for(s, t, delay) ==
    [s EXCEPT !.wait_until = t + delay, !.armed_at = t, !.armed_for = delay]

waiting(s, t) == t < s.wait_until

\* ---------------------------------------------------------------- channel
command_listener_end(s) ==
    IF s.play THEN [s EXCEPT !.closes = @ + 1]
    ELSE IF s.net THEN [s EXCEPT !.closes = @ + 1]
    ELSE s

\* line.rstrip () of a line read from the script: a blank line becomes ""
rstrip(line) == IF line = << >> THEN << >> ELSE <<line>>

\* the end-of-file branch without "nil_args.play = False"
script_exhausted_still_playing(s) ==
    [command_listener_end(s) EXCEPT !.eof_seen = TRUE]

\* the script's end-of-file: close the stream, stop reading the script
script_exhausted(s) ==
    [command_listener_end(s) EXCEPT !.play = FALSE, !.eof_seen = TRUE]

\* command_listener that reports end-of-file as empty and carries on reading
command_listener_no_degrade(s, file, n) ==
    IF s.play /\ s.file_pos < Len(file)
    THEN [s |-> [s EXCEPT !.file_pos = @ + 1], data |-> rstrip(file[s.file_pos + 1])]
    ELSE [s |-> [s EXCEPT !.eof_seen = s.play], data |-> << >>]

\* command_listener (): the state after the call, and the text it returns.
\* file is the script; n is how many of the lines waiting in the socket
\* buffer one recv (4096) returns (TCP keeps no message boundaries; lines
\* returned together are taken to be separated by whitespace).
command_listener(s, file, n) ==
    IF s.play
    THEN IF s.file_pos < Len(file)
         THEN [s |-> [s EXCEPT !.file_pos = @ + 1],
               data |-> rstrip(file[s.file_pos + 1])]
         ELSE [s |-> script_exhausted(s), data |-> << >>]
    ELSE IF s.net
    THEN IF s.peer = "reset"
         \* socket.error other than EAGAIN: data is never assigned
         THEN [s |-> Raise([s EXCEPT !.terminal_seen = TRUE], "UnboundLocalError"),
               data |-> << >>]
         ELSE IF s.sock_buf = << >>
         THEN IF s.peer = "open"
              THEN [s |-> s, data |-> << >>]                     \* EAGAIN
              ELSE [s |-> [s EXCEPT !.terminal_seen = TRUE],     \* recv = ""
                    data |-> << >>]
         ELSE LET data == SubSeq(s.sock_buf, 1, n)
                  a == [s EXCEPT !.sock_buf = SubSeq(@, n + 1, Len(@))]
              IN  IF data = << <<"quit">> >>
                  THEN [s |-> sys_exit(command_listener_end(a), 0), data |-> data]
                  ELSE [s |-> a, data |-> data]
    ELSE [s |-> s, data |-> << >>]

\* ----------------------------------------------------------------- keymap
\* A line of a keymap file is a sequence of atoms: " " (a run of
\* whitespace), ":" or a word (a run of other characters).

\* line.strip ()
RECURSIVE lstrip(_)
lstrip(line) ==
    IF line # << >> /\ Head(line) = " " THEN lstrip(Tail(line)) ELSE line

RECURSIVE strip(_)
strip(line) ==
    LET l == lstrip(line)
    IN  IF l # << >> /\ l[Len(l)] = " " THEN strip(SubSeq(l, 1, Len(l) - 1)) ELSE l

\* line.split (":"): the pieces between the colons
RECURSIVE split_colon(_)
split_colon(line) ==
    IF \A i \in 1..Len(line) : line[i] # ":" THEN <<line>>
    ELSE LET i == CHOOSE j \in 1..Len(line) :
                     line[j] = ":" /\ \A h \in 1..(j - 1) : line[h] # ":"
         IN  <<SubSeq(line, 1, i - 1)>> \o split_colon(SubSeq(line, i + 1, Len(line)))

\* the text of a piece: its atoms, run together
RECURSIVE text(_)
text(atoms) == IF atoms = << >> THEN "" ELSE Head(atoms) \o text(Tail(atoms))

\* k.split (): the words between the runs of whitespace
RECURSIVE split(_)
split(atoms) ==
    LET l == lstrip(atoms)
    IN  IF l = << >> THEN << >>
        ELSE IF \A i \in 1..Len(l) : l[i] # " " THEN <<text(l)>>
        ELSE LET i == CHOOSE j \in 1..Len(l) :
                         l[j] = " " /\ \A h \in 1..(j - 1) : l[h] # " "
             IN  <<text(SubSeq(l, 1, i - 1))>> \o split(SubSeq(l, i + 1, Len(l)))

\* line[0] == "#": the words that begin with a hash
StartsWithHash(w) == w \in {"#", "#keys"}

\* the loop body that never rebinds a key already bound
bind_keeps_first(s, k, cmd) ==
    [s EXCEPT !.cmd_table = (cmd :> k) @@ @,
              !.key_table = IF k \in DOMAIN @ THEN @ ELSE (k :> cmd) @@ @]

\* cmd_table[cmd] = k; key_table[k] = cmd
bind(s, k, cmd) ==
    [s EXCEPT !.cmd_table = (cmd :> k) @@ @, !.key_table = (k :> cmd) @@ @]

RECURSIVE bind_all(_, _, _)
bind_all(s, keys, cmd) ==
    IF keys = << >> THEN s ELSE bind_all(bind(s, Head(keys), cmd), Tail(keys), cmd)

\* the body of "for line in f"
load_line(s, raw) ==
    LET line == strip(raw)
        parts == split_colon(line)
    IN  IF Len(line) < 1 THEN s
        ELSE IF StartsWithHash(line[1]) THEN s
        \* k, cmd = line.split (":") unpacks exactly two pieces
        ELSE IF Len(parts) # 2 THEN Raise(s, "ValueError")
        ELSE bind_all(s, split(parts[1]), text(strip(parts[2])))

RECURSIVE load_lines(_, _)
load_lines(s, f) ==
    IF f = << >> \/ s.status # "running" THEN s
    ELSE load_lines(load_line(s, Head(f)), Tail(f))

\* load_keys (fn), for a file that exists, with lines f
load_keys(s, f) ==
    load_lines(Note([s EXCEPT !.log = << >>, !.keymap = f], "load_keys"), f)

\* ------------------------------------------------------------- interpreter
HelpCommands ==
    {"move_up", "move_forward", "turn_up", "move_left", "move_right",
     "turn_left", "turn_right", "move_backward", "move_down", "turn_down"}

\* print_keystrokes (): indexes cmd_table by every command of the diagram
print_keystrokes(s) ==
    IF HelpCommands \subseteq DOMAIN s.cmd_table THEN s ELSE Raise(s, "KeyError")

\* get_num (words, idx, default): [ok, v]; not ok is float ()'s ValueError
get_num(words, idx, default) ==
    IF Len(words) <= idx THEN [ok |-> TRUE, v |-> default]
    ELSE IF IsFloat(words[idx + 1]) THEN [ok |-> TRUE, v |-> float(words[idx + 1])]
    ELSE [ok |-> FALSE, v |-> 0]

\* the count test without the tolerated trailing field
viewpoint_count_exact(words) == Len(words) = 10

\* len (words) == 10 or len (words) == 11
viewpoint_count_ok(words) == Len(words) = 10 \/ Len(words) = 11

\* the branch of idle () for c == "viewpoint"
viewpoint_command(s, words) ==
    IF viewpoint_count_ok(words)
    THEN IF \A i \in 2..10 : IsFloat(words[i])
         THEN set_viewpoint(s, [i \in 1..9 |-> float(words[i + 1])])
         ELSE Raise(s, "ValueError")
    ELSE s

\* a movement branch: v = get_num (words, 1, default_step), then the move
Known(s) == [s |-> s, known |-> TRUE]
Unknown(s) == [s |-> s, known |-> FALSE]

\* the chain with a final branch that takes any other word as a command
builtin_applies_unknown(s, words) == Known(s)

\* the if / elif chain of idle () on words[0]; known is FALSE for the final
\* "else: return"
builtin(s, words) ==
    LET c == words[1]
        v == get_num(words, 1, s.default_step)
    IN  CASE c = "viewpoint" -> Known(viewpoint_command(s, words))
          [] c = "move_forward" ->
                Known(IF v.ok THEN move_forward(s, v.v) ELSE Raise(s, "ValueError"))
          [] c = "move_backward" ->
                Known(IF v.ok THEN move_forward(s, -v.v) ELSE Raise(s, "ValueError"))
          [] c = "move_left" ->
                Known(IF v.ok THEN move_left(s, v.v) ELSE Raise(s, "ValueError"))
          [] c = "move_right" ->
                Known(IF v.ok THEN move_left(s, -v.v) ELSE Raise(s, "ValueError"))
          \* the second branch for "move_up" (move_up (-v)) is never taken
          [] c = "move_up" ->
                Known(IF v.ok THEN move_up(s, v.v) ELSE Raise(s, "ValueError"))
          \* default_ang is not a name of the module
          [] c \in {"turn_left", "turn_right", "turn_down", "turn_up"} ->
                Known(Raise(s, "NameError"))
          [] c = "reset_viewpoint" -> Known(reset_viewpoint(s))
          [] c = "fly_mode" -> Known(fly_mode(s))
          [] c = "walk_mode" -> Known(walk_mode(s))
          [] c = "view_mode" -> Known(view_mode(s))
          [] c = "play_audio" /\ s.host # "right-server" ->
                Known(IF Len(words) < 2 THEN Raise(s, "IndexError") ELSE s)
          [] c = "volume" /\ s.host = "right-server" ->
                Known(IF get_num(words, 1, 200).ok THEN s ELSE Raise(s, "ValueError"))
          [] c \in {"louder", "quieter"} /\ s.host = "right-server" -> Known(s)
          \* save_frame_number is a local variable of idle ()
          [] c = "save_frame" ->
                Known(IF Len(words) < 2 THEN Raise(s, "IndexError")
                      ELSE IF IsInt(words[2]) THEN s ELSE Raise(s, "ValueError"))
          [] c = "save_template" ->
                Known(IF Len(words) < 2 THEN Raise(s, "IndexError")
                      ELSE [s EXCEPT !.save_template = words[2]])
          [] c = "pause" ->
                Known(IF Len(words) < 2 THEN Raise(s, "IndexError")
                      ELSE IF IsFloat(words[2]) THEN [s EXCEPT !.pause = float(words[2])]
                      ELSE Raise(s, "ValueError"))
          \* save () is not a name of the module
          [] c = "save" ->
                Known(IF Len(words) <= 1 THEN Raise(s, "NameError")
                      ELSE IF words[2] = "on" THEN [s EXCEPT !.saving_mode = TRUE]
                      ELSE IF words[2] = "off" THEN [s EXCEPT !.saving_mode = FALSE]
                      ELSE s)
          \* seed is a local variable of idle ()
          [] c = "seed" ->
                Known(IF Len(words) < 2 THEN Raise(s, "IndexError")
                      ELSE IF IsInt(words[2]) THEN s ELSE Raise(s, "ValueError"))
          [] OTHER -> Unknown(s)

\* arming whatever the pause is
arm_and_redraw_unconditional(s, t) ==
    glutPostRedisplay(wait_for(s, t, s.pause))

\* "if pause > 0: wait_for (pause)" and "glutPostRedisplay ()"
arm_and_redraw(s, t) ==
    glutPostRedisplay(IF s.pause > 0 THEN wait_for(s, t, s.pause) ELSE s)

\* interpret that returns as for an unknown word when the branch taken has
\* changed nothing
interpret_drops_unchanged(s, words, t, kh) ==
    LET asked == s.keyboard_callback /\ words[1] \in DOMAIN s.cmd_table
        a == IF asked
             THEN [Note(s, "keyboard_callback") EXCEPT !.offered = s.cmd_table[words[1]]]
             ELSE s
    IN  IF asked /\ kh THEN arm_and_redraw(Note(a, "handled"), t)
        ELSE LET r == builtin(Note(a, "builtin"), words)
             IN  IF r.s.status # "running" \/ ~r.known \/ r.s = Note(a, "builtin")
                 THEN r.s
                 ELSE arm_and_redraw(Note(r.s, "applied"), t)

\* interpret that applies the built-in vocabulary whatever the keyboard
\* callback answers
interpret_ignores_answer(s, words, t, kh) ==
    LET asked == s.keyboard_callback /\ words[1] \in DOMAIN s.cmd_table
        a == IF asked
             THEN [Note(s, "keyboard_callback") EXCEPT !.offered = s.cmd_table[words[1]]]
             ELSE s
        r == builtin(Note(IF asked /\ kh THEN Note(a, "handled") ELSE a, "builtin"), words)
    IN  IF r.s.status # "running" \/ ~r.known THEN r.s
        ELSE arm_and_redraw(Note(r.s, "applied"), t)

\* idle () from the words on: keyboard callback, built-in vocabulary, pacing.
\* kh is the answer of the program's keyboard callback, if it is asked.
interpret(s, words, t, kh) ==
    LET asked == s.keyboard_callback /\ words[1] \in DOMAIN s.cmd_table
        a == IF asked
             THEN [Note(s, "keyboard_callback") EXCEPT !.offered = s.cmd_table[words[1]]]
             ELSE s
    IN  IF asked /\ kh THEN arm_and_redraw(Note(a, "handled"), t)
        ELSE LET r == builtin(Note(a, "builtin"), words)
             IN  IF r.s.status # "running" \/ ~r.known THEN r.s
                 ELSE arm_and_redraw(Note(r.s, "applied"), t)

\* dispatch that offers every line, empty ones too, to the command callback
dispatch_offers_empty(s, c, t, ch, kh) ==
    LET words == Flatten(c)
        a == [s EXCEPT !.last_data = c,
                       !.consumed = IF words = << >> THEN @ ELSE Append(@, words)]
        asked == a.command_callback
        b == IF asked THEN Note(a, "command_callback") ELSE a
    IN  IF c = << <<"help">> >> THEN print_keystrokes(Note(a, "help"))
        ELSE IF c = << <<"quit">> >> THEN sys_exit(Note(a, "quit"), 0)
        ELSE IF asked /\ ch THEN arm_and_redraw(Note(b, "handled"), t)
        ELSE IF Len(words) < 1 THEN b
        ELSE interpret(b, words, t, kh)

\* dispatch that goes on to the interpreter after the command callback has
\* handled the line
dispatch_handled_continues(s, c, t, ch, kh) ==
    LET words == Flatten(c)
        a == [s EXCEPT !.last_data = c,
                       !.consumed = IF words = << >> THEN @ ELSE Append(@, words)]
        asked == a.command_callback /\ c # << >>
        b == IF asked THEN Note(a, "command_callback") ELSE a
    IN  IF c = << <<"help">> >> THEN print_keystrokes(Note(a, "help"))
        ELSE IF c = << <<"quit">> >> THEN sys_exit(Note(a, "quit"), 0)
        ELSE IF Len(words) < 1 THEN b
        ELSE interpret(IF asked /\ ch THEN Note(b, "handled") ELSE b, words, t, kh)

\* dispatch that offers the line to the command callback before it looks
\* for help and quit
dispatch_extension_first(s, c, t, ch, kh) ==
    LET words == Flatten(c)
        a == [s EXCEPT !.last_data = c,
                       !.consumed = IF words = << >> THEN @ ELSE Append(@, words)]
        asked == a.command_callback /\ c # << >>
        b == IF asked THEN Note(a, "command_callback") ELSE a
    IN  IF asked /\ ch THEN arm_and_redraw(Note(b, "handled"), t)
        ELSE IF c = << <<"help">> >> THEN print_keystrokes(Note(b, "help"))
        ELSE IF c = << <<"quit">> >> THEN sys_exit(Note(b, "quit"), 0)
        ELSE IF Len(words) < 1 THEN b
        ELSE interpret(b, words, t, kh)

\* idle () after the poll returned text c.  ch is the answer of the
\* program's command callback, if it is asked.
dispatch(s, c, t, ch, kh) ==
    LET words == Flatten(c)
        a == [s EXCEPT !.last_data = c,
                       !.consumed = IF words = << >> THEN @ ELSE Append(@, words)]
        asked == a.command_callback /\ c # << >>
        b == IF asked THEN Note(a, "command_callback") ELSE a
    IN  IF c = << <<"help">> >> THEN print_keystrokes(Note(a, "help"))
        ELSE IF c = << <<"quit">> >> THEN sys_exit(Note(a, "quit"), 0)
        ELSE IF asked /\ ch THEN arm_and_redraw(Note(b, "handled"), t)
        ELSE IF Len(words) < 1 THEN b
        ELSE interpret(b, words, t, kh)

\* idle that polls the channel before it looks at the deadline
idle_polls_first(s, file, t, n, ch, kh) ==
    LET r == command_listener(Note([s EXCEPT !.log = << >>], "poll"), file, n)
        a == Note(r.s, "waiting")
    IN  IF r.s.status # "running" THEN r.s
        ELSE IF waiting(a, t) THEN glutPostRedisplay(a)
        ELSE dispatch(a, r.data, t, ch, kh)

\* idle (): the pacing gate, the poll, the interpreter
idle(s, file, t, n, ch, kh) ==
    LET a == Note([s EXCEPT !.log = << >>], "waiting")
    IN  IF waiting(a, t) THEN glutPostRedisplay(a)
        ELSE LET r == command_listener(Note(a, "poll"), file, n)
             IN  IF r.s.status # "running" THEN r.s
                 ELSE dispatch(r.s, r.data, t, ch, kh)

\* ------------------------------------------------------------ local input
\* print_location (): formats the nine camera values with %7.2f
print_location(s) ==
    IF \E i \in 1..9 : Camera(s)[i] = None THEN Raise(s, "TypeError") ELSE s

\* default_step *= fac and default_step /= fac, fac = 1.1
times_fac(v) == Div(v * 11, 10)
over_fac(v) == Div(v * 10, 11)

\* the if / elif chain of keyboard () on the key
keyboard_builtin(s, key) ==
    CASE key \in {"p", "P"} -> move_forward(s, s.default_step)
      [] key \in {"l", "L"} -> move_forward(s, -s.default_step)
      [] key \in {"z", "Z"} -> move_left(s, s.default_step)
      [] key \in {"x", "X"} -> move_left(s, -s.default_step)
      [] key \in {"u", "U"} -> move_up(s, s.default_step)
      [] key \in {"n", "N"} -> move_up(s, -s.default_step)
      [] key = "+" -> [s EXCEPT !.default_step = times_fac(@)]
      [] key = "-" -> [s EXCEPT !.default_step = over_fac(@)]
      [] key = "<" -> [s EXCEPT !.default_angle = times_fac(@)]
      [] key = ">" -> [s EXCEPT !.default_angle = over_fac(@)]
      [] key \in {"a", "A"} -> rotate_horizontally(s, s.default_angle)
      [] key \in {"s", "S"} -> rotate_horizontally(s, -s.default_angle)
      [] key \in {"d", "D"} -> rotate_vertically(s, -s.default_angle)
      [] key \in {"e", "E"} -> rotate_vertically(s, s.default_angle)
      [] key \in {"r", "R"} -> reset_viewpoint(s)
      [] key \in {"f", "F"} -> fly_mode(s)
      [] key \in {"w", "W"} -> walk_mode(s)
      [] key \in {"v", "V"} -> view_mode(s)
      [] key \in {"h", "H"} -> print_keystrokes(s)
      [] key = "?" -> print_location(s)
      [] key \in {"q", "Q", "ESC"} -> sys_exit(Note(s, "quit"), 0)
      [] OTHER -> s

\* keyboard that pushes the pacing deadline back by the pause
keyboard_rearms(s, key, kh) ==
    LET a == Note([s EXCEPT !.log = << >>, !.last_key = key], "key")
    IN  IF a.keyboard_callback /\ kh THEN Note(a, "handled")
        ELSE LET b == keyboard_builtin(a, key)
             IN  IF b.status # "running" THEN b
                 ELSE glutPostRedisplay(
                         IF b.pause > 0 THEN [b EXCEPT !.wait_until = @ + b.pause]
                         ELSE b)

\* keyboard (key, x, y); kh is the answer of the program's keyboard callback
keyboard(s, key, kh) ==
    LET a == Note([s EXCEPT !.log = << >>, !.last_key = key], "key")
    IN  IF a.keyboard_callback /\ kh THEN Note(a, "handled")
        ELSE LET b == keyboard_builtin(a, key)
             IN  IF b.status # "running" THEN b ELSE glutPostRedisplay(b)

\* special (key, x, y): the cursor keys
special(s, key) ==
    LET a == Note([s EXCEPT !.log = << >>, !.last_key = key], "key")
        b == CASE key = "GLUT_KEY_UP" -> move_forward(a, a.default_step)
               [] key = "GLUT_KEY_DOWN" -> move_forward(a, -a.default_step)
               [] key = "GLUT_KEY_LEFT" -> rotate_horizontally(a, a.default_angle)
               [] key = "GLUT_KEY_RIGHT" -> rotate_horizontally(a, -a.default_angle)
               [] OTHER -> a
    IN  IF b.status # "running" THEN b ELSE glutPostRedisplay(b)

\* click (button, state, x, y)
click(s, x, y) ==
    glutPostRedisplay([Note([s EXCEPT !.log = << >>], "click")
                          EXCEPT !.lastx = x, !.lasty = y])

\* mouse (x, y): the pointer moved with a button held
mouse(s, x, y) ==
    LET a == Note([s EXCEPT !.log = << >>], "mouse")
        b == IF x > a.lastx THEN rotate_horizontally(a, -a.default_angle)
             ELSE IF x < a.lastx THEN rotate_horizontally(a, a.default_angle)
             ELSE a
        c == IF y > b.lasty THEN move_forward(b, -b.default_step)
             ELSE IF y < b.lasty THEN move_forward(b, b.default_step)
             ELSE b
    IN  IF a.lastx = None THEN Raise(a, "NameError")
        ELSE IF b.status # "running" THEN b
        ELSE IF c.status # "running" THEN c
        ELSE glutPostRedisplay([c EXCEPT !.lastx = x, !.lasty = y])

\* ------------------------------------------------------------ the session
\* init (args) and command_listener_begin (): -play, -net or neither, and
\* -pause
Start(mode, pause) ==
    [Globals EXCEPT !.play = (mode = "play"), !.net = (mode = "net"),
                    !.pause = pause]

\* the channel's resource (script file or socket) is open
ResourceOpen(s) == (s.play \/ s.net) /\ s.closes = 0

\* the camera stays in the modelled region, with exactly modelled angles
InRange(s) ==
    /\ NoCamera(s) \/ /\ \A i \in 1..3 : Abs(Camera(s)[i]) <= MaxCoord
                      /\ \A i \in 1..3 : Abs(Camera(s)[i + 3] - Camera(s)[i]) <= 4 * MaxCoord

SeqsUpTo(S, n) == UNION {[1..k -> S] : k \in 0..n}

\* the lines of the command streams
Lines ==
    {<<"move_forward", "1">>,
     <<"move_up">>,
     <<"viewpoint", "1", "0", "0", "1", "0", "3", "0", "1", "0">>,
     <<"quit">>,
     << >>}

\* the keys the user presses
Keys == {"q"}

\* the inter-command pauses given on the command line
Pauses == {0, 2}

Init ==
    /\ now = 0
    /\ sent = 0
    /\ \E mode \in {"play", "net", "none"} : \E pause \in Pauses :
          /\ proc = [p \in {1} |-> Start(mode, pause)]
          /\ stream \in IF mode = "none" THEN {<< >>} ELSE SeqsUpTo(Lines, MaxStream)

Running(p) == proc[p].status = "running"

\* time passes
Tick ==
    /\ now < MaxTime
    /\ now' = now + 1
    /\ UNCHANGED <<proc, stream, sent>>

\* GLUT calls the idle callback of process p
IdleTick(p) ==
    /\ Running(p)
    /\ \E n \in 1..(IF Len(proc[p].sock_buf) = 0 THEN 1 ELSE Len(proc[p].sock_buf)) :
       \E ch \in (IF proc[p].command_callback THEN BOOLEAN ELSE {FALSE}) :
       \E kh \in (IF proc[p].keyboard_callback THEN BOOLEAN ELSE {FALSE}) :
          /\ proc' = [proc EXCEPT ![p] = idle(proc[p], stream, now, n, ch, kh)]
          /\ InRange(proc'[p])
    /\ UNCHANGED <<now, stream, sent>>

\* the origin sends the next line of the stream to every connected process
Send ==
    /\ sent < Len(stream)
    /\ \E p \in DOMAIN proc : proc[p].net
    /\ sent' = sent + 1
    /\ proc' = [p \in DOMAIN proc |->
                  IF proc[p].net /\ proc[p].peer = "open"
                  THEN [proc[p] EXCEPT !.sock_buf = Append(@, stream[sent + 1])]
                  ELSE proc[p]]
    /\ UNCHANGED <<now, stream>>

\* the peer closes the connection of process p
PeerClose(p) ==
    /\ Running(p) /\ proc[p].net /\ proc[p].peer = "open"
    /\ proc' = [proc EXCEPT ![p].peer = "closed"]
    /\ UNCHANGED <<now, stream, sent>>

\* the connection of process p fails (a socket error other than EAGAIN)
PeerReset(p) ==
    /\ Running(p) /\ proc[p].net /\ proc[p].peer = "open"
    /\ proc' = [proc EXCEPT ![p].peer = "reset"]
    /\ UNCHANGED <<now, stream, sent>>

\* GLUT calls the keyboard callback of process p with a key of K
KeyboardIn(p, K) ==
    /\ Running(p)
    /\ \E key \in K :
       \E kh \in (IF proc[p].keyboard_callback THEN BOOLEAN ELSE {FALSE}) :
          /\ proc' = [proc EXCEPT ![p] = keyboard(proc[p], key, kh)]
          /\ InRange(proc'[p])
    /\ UNCHANGED <<now, stream, sent>>

Keyboard(p) == KeyboardIn(p, Keys)

Next ==
    \/ Tick
    \/ Send
    \/ \E p \in DOMAIN proc : IdleTick(p)
    \/ \E p \in DOMAIN proc : PeerClose(p)
    \/ \E p \in DOMAIN proc : PeerReset(p)
    \/ \E p \in DOMAIN proc : Keyboard(p)

Spec == Init /\ [][Next]_vars

\* ------------------------------------------- navigation with one process
\* the program calls set_viewpoint with one of these
Viewpoints ==
    {<<0, 0, 0, 0, 0, 20, 0, 2, 0>>,
     <<2, 0, 0, 2, 0, 6, 0, 2, 0>>}

NavLines ==
    {<<"viewpoint", "1", "0", "0", "1", "0", "3", "0", "1", "0">>,
     <<"viewpoint", "0", "1", "0", "2", "1", "0", "0", "1", "0", "3">>,
     <<"viewpoint", "2", "0", "0", "0", "0", "0">>,
     <<"viewpoint", "3", "0", "0", "0", "0", "0", "0", "1", "0", "1", "2">>,
     <<"reset_viewpoint">>,
     <<"move_forward", "1">>}

NavKeys == {"r", "w"}

InitNav ==
    /\ now = 0
    /\ sent = 0
    /\ proc = [p \in {1} |-> Start("play", 0)]
    /\ stream \in SeqsUpTo(NavLines, MaxStream)

\* the program calls set_viewpoint
SetViewpoint(p) ==
    /\ Running(p)
    /\ \E v \in Viewpoints :
          proc' = [proc EXCEPT ![p] = set_viewpoint([proc[p] EXCEPT !.log = << >>], v)]
    /\ UNCHANGED <<now, stream, sent>>

KeyboardNav(p) == KeyboardIn(p, NavKeys)

NextNav ==
    \/ \E p \in DOMAIN proc : IdleTick(p)
    \/ \E p \in DOMAIN proc : SetViewpoint(p)
    \/ \E p \in DOMAIN proc : KeyboardNav(p)

SpecNav == InitNav /\ [][NextNav]_vars

\* ------------------------------- two processes fed by the same origin
InitPair ==
    /\ now = 0
    /\ sent = 0
    /\ \E pause \in Pauses : proc = [p \in {1, 2} |-> Start("net", pause)]
    /\ stream \in SeqsUpTo(Lines, MaxStream)

NextPair ==
    \/ Tick
    \/ Send
    \/ \E p \in DOMAIN proc : IdleTick(p)

SpecPair == InitPair /\ [][NextPair]_vars

\* ------------------- the interpreter fed well-formed and malformed lines
CmdLines ==
    {<< >>,
     <<"bogus", "1">>,
     <<"move_forward", "abc">>,
     <<"pause">>,
     <<"viewpoint", "1", "0", "0", "x", "0", "3", "0", "1", "0">>,
     <<"move_forward", "1">>}

\* the program may have registered a command callback before the main loop
InitCmd ==
    /\ now = 0
    /\ sent = 0
    /\ \E mode \in {"play", "net", "none"} : \E pause \in Pauses :
       \E cb \in BOOLEAN :
          /\ proc = [p \in {1} |-> [Start(mode, pause) EXCEPT !.command_callback = cb]]
          /\ stream \in IF mode = "none" THEN {<< >>} ELSE SeqsUpTo(CmdLines, MaxStream)

NextCmd ==
    \/ Tick
    \/ Send
    \/ \E p \in DOMAIN proc : IdleTick(p)

SpecCmd == InitCmd /\ [][NextCmd]_vars

\* --------------------------- navigation by the commands of a script
\* a rotation step of 90 degrees
QuarterTurn == 180

MoveLines ==
    {<<"move_forward">>,
     <<"move_forward", "1">>,
     <<"move_backward", "1">>,
     <<"move_left", "1">>,
     <<"move_right">>,
     <<"move_up", "1">>,
     <<"move_down", "1">>,
     <<"turn_left">>,
     <<"turn_right", "1">>,
     <<"turn_up">>,
     <<"turn_down", "1">>,
     <<"viewpoint", "0", "1", "0", "0", "3", "0", "0", "0", "1">>,
     <<"viewpoint", "1", "0", "0", "1", "0", "0", "0", "1", "0">>}

\* before the main loop the program has chosen a motion mode and set the
\* rotation step
InitMove ==
    /\ now = 0
    /\ sent = 0
    /\ \E mode \in {"F", "W", "V"} :
          proc = [p \in {1} |->
                    set_rotation_step([Start("play", 0) EXCEPT !.motion_mode = mode],
                                      QuarterTurn)]
    /\ stream \in SeqsUpTo(MoveLines, MaxStream)

NextMove == \E p \in DOMAIN proc : IdleTick(p)

SpecMove == InitMove /\ [][NextMove]_vars

\* ------------------- navigation by the keyboard, the cursor keys, the pointer
\* the program calls set_viewpoint with one of these
LocalViewpoints ==
    {<<0, 0, 0, 0, 0, 2, 0, 2, 0>>,
     <<2, 0, 0, 4, 0, 0, 0, 0, 2>>}

LocalKeys == {"p", "l", "z", "x", "u", "n", "a", "s", "d", "e", "r"}

CursorKeys == {"GLUT_KEY_UP", "GLUT_KEY_DOWN", "GLUT_KEY_LEFT", "GLUT_KEY_RIGHT"}

\* the lines of the script, which has at most one
LocalLines == {<<"move_right", "1">>}

\* window coordinates of the pointer
Pixels == {0, 1}

\* before the main loop the program has chosen a motion mode, set the
\* rotation step and set the viewpoint
InitLocal ==
    /\ now = 0
    /\ sent = 0
    /\ stream \in SeqsUpTo(LocalLines, 1)
    /\ \E mode \in {"F", "W", "V"} : \E v \in LocalViewpoints :
          proc = [p \in {1} |->
                    [set_viewpoint(set_rotation_step(
                        [Start("play", 0) EXCEPT !.motion_mode = mode],
                        QuarterTurn), v) EXCEPT !.log = << >>]]

\* the windowing system delivers a local input event to process p, whose
\* handler leaves the process in state s2.  A quarter turn up or down from
\* a vertical view is outside the model: the code computes it from rounding
\* residue.
LocalEvent(p, s2) ==
    /\ Running(p)
    /\ proc[p].events < MaxEvents
    /\ InRange(s2)
    /\ s2.status = "running" => P(s2) # T(s2)
    /\ proc' = [proc EXCEPT ![p] = [s2 EXCEPT !.events = @ + 1, !.local_at = now]]
    /\ UNCHANGED <<now, stream, sent>>

KeyboardLocal(p) == \E key \in LocalKeys : LocalEvent(p, keyboard(proc[p], key, FALSE))

Special(p) == \E key \in CursorKeys : LocalEvent(p, special(proc[p], key))

Click(p) == \E x \in Pixels : \E y \in Pixels : LocalEvent(p, click(proc[p], x, y))

\* motion events come while a button is held, after its click
Mouse(p) ==
    /\ proc[p].lastx # None
    /\ \E x \in Pixels : \E y \in Pixels : LocalEvent(p, mouse(proc[p], x, y))

\* the program calls set_viewpoint from one of its callbacks
SetViewpointLocal(p) ==
    \E v \in LocalViewpoints :
       LocalEvent(p, set_viewpoint([proc[p] EXCEPT !.log = << >>], v))

NextLocal ==
    \/ \E p \in DOMAIN proc : IdleTick(p)
    \/ \E p \in DOMAIN proc : KeyboardLocal(p)
    \/ \E p \in DOMAIN proc : Special(p)
    \/ \E p \in DOMAIN proc : Click(p)
    \/ \E p \in DOMAIN proc : Mouse(p)
    \/ \E p \in DOMAIN proc : SetViewpointLocal(p)

SpecLocal == InitLocal /\ [][NextLocal]_vars

\* ------------------------------------------------- loading keymap files
\* the lines of keymap files, which have at most two
KeymapLines ==
    {<<" ">>,
     <<"#", " ", "a", ":", " ", "move_up">>,
     <<" ", "a", " ", "b", ":", " ", "move_up", " ">>,
     <<"b", " ", "c", ":", "move_down">>,
     <<"a", ":", "move", " ", "down">>,
     <<"a", " ", "move_up">>}

InitKeys ==
    /\ now = 0
    /\ sent = 0
    /\ stream = << >>
    /\ proc = [p \in {1} |-> Start("none", 0)]

\* the program calls load_keys on a keymap file
LoadKeys(p) ==
    /\ Running(p)
    /\ proc[p].events < MaxEvents
    /\ \E f \in SeqsUpTo(KeymapLines, 2) :
          proc' = [proc EXCEPT ![p] = [load_keys(proc[p], f) EXCEPT !.events = @ + 1]]
    /\ UNCHANGED <<now, stream, sent>>

NextKeys == \E p \in DOMAIN proc : LoadKeys(p)

SpecKeys == InitKeys /\ [][NextKeys]_vars

\* ------------------------------ a program with its extensions registered
\* the keymap file the program loads
ExtKeymap ==
    <<<<"#", " ", "keys">>,
      <<"p", ":", " ", "move_forward">>, <<"l", ":", " ", "move_backward">>,
      <<"z", ":", " ", "move_left">>, <<"x", ":", " ", "move_right">>,
      <<"u", ":", " ", "move_up">>, <<"n", ":", " ", "move_down">>,
      <<"a", ":", " ", "turn_left">>, <<"s", ":", " ", "turn_right">>,
      <<"e", ":", " ", "turn_up">>, <<"d", ":", " ", "turn_down">>,
      <<"h", ":", " ", "help">>, <<"q", ":", " ", "quit">>>>

ExtLines ==
    {<<"help">>,
     <<"quit">>,
     <<"move_forward", "1">>,
     <<"walk_mode">>,
     <<"pause", "0">>,
     <<"pause", "1">>}

\* before the main loop the program may have loaded its keymap and
\* registered a command callback, a keyboard callback or both
InitExt ==
    /\ now = 0
    /\ sent = 0
    /\ stream \in SeqsUpTo(ExtLines, MaxStream)
    /\ \E pause \in Pauses : \E cb \in BOOLEAN : \E kb \in BOOLEAN :
       \E f \in {<< >>, ExtKeymap} :
          proc = [p \in {1} |->
                    [load_keys(Start("play", pause), f)
                        EXCEPT !.command_callback = cb, !.keyboard_callback = kb,
                               !.log = << >>]]

NextExt ==
    \/ Tick
    \/ \E p \in DOMAIN proc : IdleTick(p)

SpecExt == InitExt /\ [][NextExt]_vars

\* ------------------------------------- local input during a paced script
\* the lines of a script played with a pause of one second
PacedLines == {<<"move_forward", "1">>}

PacedKeys == {"p", "a"}

PacedPause == 2

InitPaced ==
    /\ now = 0
    /\ sent = 0
    /\ stream \in SeqsUpTo(PacedLines, MaxStream)
    /\ proc = [p \in {1} |->
                 set_rotation_step(Start("play", PacedPause), QuarterTurn)]

PacedCursorKeys == {"GLUT_KEY_UP", "GLUT_KEY_LEFT"}

KeyboardPaced(p) == \E key \in PacedKeys : LocalEvent(p, keyboard(proc[p], key, FALSE))

SpecialPaced(p) == \E key \in PacedCursorKeys : LocalEvent(p, special(proc[p], key))

\* the pointer stays on one row of the window
ClickPaced(p) == \E x \in Pixels : LocalEvent(p, click(proc[p], x, 0))

MousePaced(p) ==
    /\ proc[p].lastx # None
    /\ \E x \in Pixels : LocalEvent(p, mouse(proc[p], x, 0))

NextPaced ==
    \/ Tick
    \/ \E p \in DOMAIN proc : IdleTick(p)
    \/ \E p \in DOMAIN proc : KeyboardPaced(p)
    \/ \E p \in DOMAIN proc : SpecialPaced(p)
    \/ \E p \in DOMAIN proc : ClickPaced(p)
    \/ \E p \in DOMAIN proc : MousePaced(p)

SpecPaced == InitPaced /\ [][NextPaced]_vars

\* ------------------------------------ viewpoint lines of any field count
\* a script with viewpoint lines of 7, 10 and 12 words, an unknown word and
\* a blank line
CountLines ==
    {<<"viewpoint", "2", "0", "0", "0", "0", "0">>,
     <<"viewpoint", "1", "0", "0", "1", "0", "3", "0", "1", "0">>,
     <<"viewpoint", "3", "0", "0", "0", "0", "0", "0", "1", "0", "1", "2">>,
     <<"bogus", "1">>,
     << >>}

InitCount ==
    /\ now = 0
    /\ sent = 0
    /\ stream \in SeqsUpTo(CountLines, MaxStream)
    /\ \E pause \in Pauses : proc = [p \in {1} |-> Start("play", pause)]

NextCount ==
    \/ Tick
    \/ \E p \in DOMAIN proc : IdleTick(p)

SpecCount == InitCount /\ [][NextCount]_vars

\* -------------------------------------- playing a script to its end
\* a script of commands of the documented form, without quit
LiveLines ==
    {<<"move_forward", "1">>,
     <<"walk_mode">>,
     <<"turn_left">>}

InitLive ==
    /\ now = 0
    /\ sent = 0
    /\ stream \in SeqsUpTo(LiveLines, MaxStream)
    /\ \E pause \in Pauses : proc = [p \in {1} |-> Start("play", pause)]

\* time passes; the clock does not stop while a process waits for its
\* deadline
TickLive ==
    /\ now < MaxTime \/ \E p \in DOMAIN proc : Running(p) /\ waiting(proc[p], now)
    /\ now' = now + 1
    /\ UNCHANGED <<proc, stream, sent>>

NextLive ==
    \/ TickLive
    \/ \E p \in DOMAIN proc : IdleTick(p)

\* a call of the idle callback of process p would change its state: the
\* enabling condition of <<IdleTick(p)>>_vars, as a state predicate
IdleCanRun(p) ==
    /\ Running(p)
    /\ \E n \in 1..(IF Len(proc[p].sock_buf) = 0 THEN 1 ELSE Len(proc[p].sock_buf)) :
       \E ch \in (IF proc[p].command_callback THEN BOOLEAN ELSE {FALSE}) :
       \E kh \in (IF proc[p].keyboard_callback THEN BOOLEAN ELSE {FALSE}) :
          LET s2 == idle(proc[p], stream, now, n, ch, kh)
          IN  s2 # proc[p] /\ InRange(s2)

\* weak fairness of the idle callback: GLUT calls it again and again
IdleFair ==
    \A p \in {1} : []<>(~IdleCanRun(p)) \/ []<><<IdleTick(p)>>_vars

\* the main loop keeps calling the idle callback, and time advances
SpecLive ==
    /\ InitLive
    /\ [][NextLive]_vars
    /\ WF_vars(TickLive)
    /\ IdleFair

\* --------------------------------------------- the operational commands
\* a script of operational commands, each with a valid argument
OpsLines ==
    {<<"pause", "1">>,
     <<"save", "on">>,
     <<"save", "off">>,
     <<"save_template", "f%d.png">>,
     <<"save_frame", "3">>,
     <<"seed", "2">>}

InitOps ==
    /\ now = 0
    /\ sent = 0
    /\ stream \in SeqsUpTo(OpsLines, MaxStream)
    /\ \E pause \in Pauses : proc = [p \in {1} |-> Start("play", pause)]

NextOps ==
    \/ Tick
    \/ \E p \in DOMAIN proc : IdleTick(p)

SpecOps == InitOps /\ [][NextOps]_vars

\* this step is a run of the idle callback of process p
StepIdle(p) ==
    /\ Running(p)
    /\ \E n \in 1..(IF Len(proc[p].sock_buf) = 0 THEN 1 ELSE Len(proc[p].sock_buf)) :
       \E ch \in BOOLEAN : \E kh \in BOOLEAN :
          proc'[p] = idle(proc[p], stream, now, n, ch, kh)

\* ================================================================ claims
InLog(s, e) == \E i \in 1..Len(s.log) : s.log[i] = e

NonBlank(lines) == SelectSeq(lines, LAMBDA l : l # << >>)

\* CameraState and the pause
CameraState(s) ==
    <<Camera(s), s.motion_mode, s.default_step, s.default_angle, s.pause>>

\* C1: every idle tick looks at the pacing deadline before it polls the
\* channel; a tick that finds the controller busy does not poll and applies
\* nothing (camera, mode, steps, pause, script cursor, socket buffer and
\* deadline are as before) and requests a redraw.
C1_BusyTick ==
    [][\A p \in DOMAIN proc : StepIdle(p) =>
          LET s == proc[p]
              s2 == proc'[p]
          IN  /\ s2.log[1] = "waiting"
              /\ \A i \in 1..Len(s2.log) :
                    s2.log[i] = "poll" => \E j \in 1..(i - 1) : s2.log[j] = "waiting"
              /\ waiting(s, now) =>
                    /\ s2.log = <<"waiting", "redraw">>
                    /\ CameraState(s2) = CameraState(s)
                    /\ s2.file_pos = s.file_pos
                    /\ s2.sock_buf = s.sock_buf
                    /\ s2.consumed = s.consumed
                    /\ s2.wait_until = s.wait_until
                    /\ s2.status = "running"]_vars

\* a busy tick has run while a command was waiting on the channel
C1_Witness ==
    \E p \in DOMAIN proc :
       /\ proc[p].log = <<"waiting", "redraw">>
       /\ waiting(proc[p], now)
       /\ \/ proc[p].play /\ proc[p].file_pos < Len(stream)
          \/ proc[p].sock_buf # << >>

\* C2: the interpreter is handed the commands of the stream one at a time,
\* in the order sent, none skipped, merged or repeated.
C2_InOrder ==
    \A p \in DOMAIN proc : IsPrefix(proc[p].consumed, NonBlank(stream))

\* C3: two processes started alike that have both consumed the whole stream
\* are in the same CameraState.
C3_Converge ==
    (/\ sent = Len(stream)
     /\ \A p \in DOMAIN proc : Running(p) /\ proc[p].sock_buf = << >>)
    => \A p, q \in DOMAIN proc : CameraState(proc[p]) = CameraState(proc[q])

\* C4: after reset_viewpoint the camera is the one passed to the first
\* set_viewpoint call, and the mode is FLY.
C4_ResetRestoresFirst ==
    \A p \in DOMAIN proc :
       (InLog(proc[p], "reset_viewpoint") /\ proc[p].first_vp # << >>)
       => Camera(proc[p]) = proc[p].first_vp /\ proc[p].motion_mode = "F"

\* C5: a viewpoint line with nine or ten numeric arguments sets P, T and U
\* to the first nine; with any other number of arguments it leaves P, T, U,
\* the initial snapshot and the motion mode as they were.
C5_Viewpoint ==
    [][\A p \in DOMAIN proc : StepIdle(p) =>
          LET s == proc[p]
              s2 == proc'[p]
              w == Flatten(s2.last_data)
          IN  (/\ InLog(s2, "builtin")
               /\ w[1] = "viewpoint"
               /\ \A i \in 2..Len(w) : IsFloat(w[i]))
              => IF Len(w) - 1 \in {9, 10}
                 THEN /\ Camera(s2) = [i \in 1..9 |-> float(w[i + 1])]
                      /\ s2.status = "running"
                 ELSE /\ Camera(s2) = Camera(s)
                      /\ Snapshot(s2) = Snapshot(s)
                      /\ s2.motion_mode = s.motion_mode
                      /\ s2.status = "running"]_vars

\* a viewpoint line with ten arguments has been applied
C5_Witness ==
    \E p \in DOMAIN proc :
       /\ InLog(proc[p], "applied")
       /\ Len(Flatten(proc[p].last_data)) = 11
       /\ Flatten(proc[p].last_data)[1] = "viewpoint"
       /\ Camera(proc[p]) = <<0, 2, 0, 4, 2, 0, 0, 2, 0>>

\* C6: before any wait_for the deadline is 0 and the controller is not
\* busy; after wait_for (p), p > 0, at time t it is busy at every time
\* before t + p and not busy from t + p on.
C6_Pacing ==
    \A p \in DOMAIN proc :
       LET s == proc[p]
       IN  IF s.armed_at = None
           THEN s.wait_until = 0 /\ ~waiting(s, now)
           ELSE s.armed_for > 0 => (waiting(s, now) <=> now < s.armed_at + s.armed_for)

\* the controller was armed and its pause has run out
C6_Witness ==
    \E p \in DOMAIN proc :
       /\ proc[p].armed_at # None
       /\ proc[p].armed_for > 0
       /\ now >= proc[p].armed_at + proc[p].armed_for
       /\ ~waiting(proc[p], now)

\* C7: a poll of the script returns the next line of the file; the poll at
\* end-of-file closes the file, leaves neither script nor network mode on
\* and returns empty; every later poll returns empty, reads nothing, and
\* the process keeps running.
C7_Script ==
    [][\A p \in DOMAIN proc : (StepIdle(p) /\ ~waiting(proc[p], now)) =>
          LET s == proc[p]
              s2 == proc'[p]
          IN  /\ (s.play /\ s.file_pos < Len(stream)) =>
                    /\ s2.file_pos = s.file_pos + 1
                    /\ s2.last_data = IF stream[s2.file_pos] = << >> THEN << >>
                                      ELSE <<stream[s2.file_pos]>>
                    /\ s2.closes = s.closes
              /\ (s.play /\ s.file_pos = Len(stream)) =>
                    /\ s2.closes = s.closes + 1
                    /\ ~s2.play /\ ~s2.net
                    /\ s2.eof_seen
                    /\ s2.last_data = << >>
                    /\ s2.status = "running"
              /\ s.eof_seen =>
                    /\ ~s2.play /\ ~s2.net
                    /\ s2.file_pos = s.file_pos
                    /\ s2.closes = s.closes
                    /\ s2.last_data = << >>
                    /\ s2.status = "running"]_vars

\* a script of two commands has been read in order and is exhausted
C7_Witness ==
    \E p \in DOMAIN proc :
       /\ proc[p].eof_seen
       /\ Len(stream) = 2
       /\ proc[p].consumed = stream
       /\ proc[p].status = "running"

\* C8: a process that has exited on quit has exit status 0 and has closed
\* the channel's resource.
C8_QuitCloses ==
    \A p \in DOMAIN proc :
       proc[p].status = "exited" =>
          proc[p].exit_code = 0 /\ ~ResourceOpen(proc[p])

\* C9: the channel's resource is closed at most once, and once the script
\* is exhausted it has been closed exactly once.
C9_ClosedOnce ==
    \A p \in DOMAIN proc :
       /\ proc[p].closes <= 1
       /\ proc[p].eof_seen => proc[p].closes = 1

\* the script ran out and the process then quit
C9_Witness ==
    \E p \in DOMAIN proc :
       /\ proc[p].eof_seen
       /\ proc[p].status = "exited"
       /\ proc[p].closes = 1

\* C10: once recv has reported the connection closed or failed, the process
\* is not in error.
C10_Degrades ==
    \A p \in DOMAIN proc :
       proc[p].terminal_seen => proc[p].status # "error"

\* the poll of this tick yields empty text: nothing waiting on a live
\* connection, no channel at all, or a blank line of the script
EmptyPoll(s) ==
    \/ ~s.play /\ s.net /\ s.peer = "open" /\ s.sock_buf = << >>
    \/ ~s.play /\ ~s.net
    \/ s.play /\ s.file_pos < Len(stream) /\ stream[s.file_pos + 1] = << >>

\* C11: an idle tick whose poll yields empty text (nothing waiting on the
\* connection, no channel, a blank script line) raises no error, does not
\* offer the line to the command callback, and leaves CameraState and the
\* pacing deadline as they were.
C11_EmptyPoll ==
    [][\A p \in DOMAIN proc :
          (StepIdle(p) /\ ~waiting(proc[p], now) /\ EmptyPoll(proc[p])) =>
          LET s == proc[p]
              s2 == proc'[p]
          IN  /\ s2.status = "running"
              /\ s2.last_data = << >>
              /\ ~InLog(s2, "command_callback")
              /\ CameraState(s2) = CameraState(s)
              /\ s2.wait_until = s.wait_until
              /\ s2.consumed = s.consumed]_vars

\* with a command callback registered and a deadline armed by an earlier
\* command, a blank line of the script has been polled
C11_Witness ==
    \E p \in DOMAIN proc :
       /\ proc[p].log = <<"waiting", "poll">>
       /\ proc[p].command_callback
       /\ proc[p].wait_until > 0
       /\ proc[p].play /\ proc[p].file_pos = 2
       /\ stream[2] = << >>

\* the words the interpreter documents as its commands
Vocabulary ==
    {"help", "quit", "viewpoint", "move_forward", "move_backward", "move_left",
     "move_right", "move_up", "move_down", "turn_left", "turn_right",
     "turn_up", "turn_down", "reset_viewpoint", "fly_mode", "walk_mode",
     "view_mode", "play_audio", "volume", "louder", "quieter", "save_frame",
     "save_template", "pause", "save", "seed"}

\* this step handed one more word list to the interpreter
Handed(s, s2) == Len(s2.consumed) = Len(s.consumed) + 1

LastWords(s) == s.consumed[Len(s.consumed)]

\* C12: an idle tick that reads a non-empty line whose first word is not a
\* command, and which no callback claims, leaves P, T, U, the mode, the
\* step sizes, the pause and the pacing deadline as they were and raises
\* no error.
C12_UnknownDropped ==
    [][\A p \in DOMAIN proc :
          (/\ StepIdle(p)
           /\ Handed(proc[p], proc'[p])
           /\ LastWords(proc'[p])[1] \notin Vocabulary
           /\ ~InLog(proc'[p], "handled")) =>
          LET s == proc[p]
              s2 == proc'[p]
          IN  /\ s2.status = "running"
              /\ CameraState(s2) = CameraState(s)
              /\ s2.wait_until = s.wait_until
              /\ ~InLog(s2, "redraw")]_vars

\* an unknown word was offered to the command callback, declined, and
\* dropped by the interpreter, after an earlier command had moved the
\* camera and the session runs with a pause
C12_Witness ==
    \E p \in DOMAIN proc :
       /\ proc[p].log = <<"waiting", "poll", "command_callback", "builtin">>
       /\ proc[p].last_data = << <<"bogus", "1">> >>
       /\ proc[p].pause > 0
       /\ proc[p].CZ # 0
       /\ proc[p].status = "running"

\* a command with a field that float () rejects, or without the argument
\* its branch indexes
Malformed(w) ==
    \/ /\ w[1] \in {"move_forward", "move_backward", "move_left", "move_right",
                    "move_up", "move_down", "turn_left", "turn_right",
                    "turn_up", "turn_down"}
       /\ Len(w) >= 2 /\ ~IsFloat(w[2])
    \/ /\ w[1] = "viewpoint"
       /\ \E i \in 2..Len(w) : ~IsFloat(w[i])
    \/ /\ w[1] = "pause"
       /\ Len(w) < 2 \/ ~IsFloat(w[2])

\* C13: an idle tick that reads a command with an unparseable number or
\* without its required argument drops it: CameraState and the session
\* settings are as before and the process keeps running, without an error.
C13_MalformedDropped ==
    [][\A p \in DOMAIN proc :
          (/\ StepIdle(p)
           /\ Handed(proc[p], proc'[p])
           /\ Malformed(LastWords(proc'[p]))
           /\ ~InLog(proc'[p], "handled")) =>
          LET s == proc[p]
              s2 == proc'[p]
          IN  /\ s2.status = "running"
              /\ s2.error = ""
              /\ CameraState(s2) = CameraState(s)
              /\ s2.saving_mode = s.saving_mode
              /\ s2.save_template = s.save_template]_vars

MoveCommands ==
    {"move_forward", "move_backward", "move_left", "move_right", "move_up",
     "move_down"}

TurnCommands == {"turn_left", "turn_right", "turn_up", "turn_down"}

\* a movement or turn command, alone or with a magnitude that parses
WellFormedMove(w) ==
    /\ w[1] \in MoveCommands \union TurnCommands
    /\ Len(w) = 1 \/ (Len(w) = 2 /\ IsFloat(w[2]))

\* C14: an idle tick that reads a movement command (move_forward,
\* move_backward, move_left, move_right, move_up, move_down) or a turn
\* command (turn_left, turn_right, turn_up, turn_down) recognises it and
\* applies its navigation operation: the tick completes as an applied
\* command and the camera is the one the operation gives.
C14_Recognised ==
    [][\A p \in DOMAIN proc :
          (/\ StepIdle(p)
           /\ Handed(proc[p], proc'[p])
           /\ WellFormedMove(LastWords(proc'[p]))) =>
          /\ proc'[p].status = "running"
          /\ InLog(proc'[p], "applied")]_vars

\* the navigation call in the branch of idle () written for command c, with
\* magnitude v
NavOp(s, c, v) ==
    CASE c = "move_forward" -> move_forward(s, v)
      [] c = "move_backward" -> move_forward(s, -v)
      [] c = "move_left" -> move_left(s, v)
      [] c = "move_right" -> move_left(s, -v)
      [] c = "move_up" -> move_up(s, v)
      [] c = "move_down" -> move_up(s, -v)
      [] c = "turn_left" -> rotate_horizontally(s, -v)
      [] c = "turn_right" -> rotate_horizontally(s, v)
      [] c = "turn_down" -> rotate_vertically(s, -v)
      [] c = "turn_up" -> rotate_vertically(s, v)

\* the magnitude of a movement or turn command: its second word, or the
\* current default step (movement) or default angle (turn)
Magnitude(s, w) ==
    IF Len(w) >= 2 THEN float(w[2])
    ELSE IF w[1] \in MoveCommands THEN s.default_step ELSE s.default_angle

\* C15: an idle tick that reads a movement or turn command applies its
\* operation with the magnitude given on the line or, if none is given,
\* with the default step (movement) or the default angle (turn), and the
\* tick completes normally.
C15_Magnitude ==
    [][\A p \in DOMAIN proc :
          (/\ StepIdle(p)
           /\ Handed(proc[p], proc'[p])
           /\ WellFormedMove(LastWords(proc'[p]))) =>
          LET s == proc[p]
              s2 == proc'[p]
              w == LastWords(s2)
          IN  /\ s2.status = "running"
              /\ InLog(s2, "redraw")
              /\ Camera(s2) = Camera(NavOp(s, w[1], Magnitude(s, w)))]_vars

\* a movement or rotation key, a cursor key, a pointer motion or a movement
\* command has run in this step
NavigationStep(s2) ==
    \/ InLog(s2, "key") /\ ~InLog(s2, "reset_viewpoint")
    \/ InLog(s2, "mouse")
    \/ InLog(s2, "applied") /\ LastWords(s2)[1] \in MoveCommands \union TurnCommands

\* C16: no step in which a movement command, a movement or rotation key, a
\* cursor key or a pointer motion is handled, in any motion mode, changes
\* the up vector U; a step changes U only if it is a set_viewpoint call, a
\* viewpoint command or reset_viewpoint.
C16_UpVector ==
    [][\A p \in DOMAIN proc :
          LET s == proc[p]
              s2 == proc'[p]
          IN  /\ NavigationStep(s2) => U(s2) = U(s)
              /\ U(s2) # U(s) =>
                    InLog(s2, "set_viewpoint") \/ InLog(s2, "reset_viewpoint")]_vars

\* after a click, a pointer motion has changed the camera and the up
\* vector is still the one of the first set_viewpoint
C16_Witness ==
    \E p \in DOMAIN proc :
       /\ proc[p].log = <<"mouse", "redraw">>
       /\ proc[p].events = 2
       /\ proc[p].consumed = << >>
       /\ T(proc[p]) # SubSeq(proc[p].first_vp, 4, 6)
       /\ P(proc[p]) # SubSeq(proc[p].first_vp, 1, 3)
       /\ U(proc[p]) = SubSeq(proc[p].first_vp, 7, 9)

\* magnitudes of movements
Distances == {-4, -2, -1, 1, 2, 4}

\* C17: in walk mode, for every distance d, move_up (d) changes nothing
\* and move_forward (d) changes nothing but the X and Z coordinates of P
\* and T: the Y coordinates of P and T stay as they were.
C17_WalkHeight ==
    \A p \in DOMAIN proc :
       LET s == proc[p]
       IN  (s.motion_mode = "W" /\ ~NoCamera(s) /\ P(s) # T(s)) =>
              \A d \in Distances :
                 LET f == move_forward(s, d)
                 IN  /\ move_up(s, d) = s
                     /\ f.CY = s.CY /\ f.VY = s.VY
                     /\ [f EXCEPT !.CX = s.CX, !.CZ = s.CZ,
                                   !.VX = s.VX, !.VZ = s.VZ] = s

\* in walk mode, looking straight up, a move_forward command has been
\* applied and the camera is where the viewpoint command put it
C17_Witness ==
    \E p \in DOMAIN proc :
       /\ proc[p].motion_mode = "W"
       /\ proc[p].consumed =
             << <<"viewpoint", "0", "1", "0", "0", "3", "0", "0", "0", "1">>,
                <<"move_forward", "1">> >>
       /\ InLog(proc[p], "applied")
       /\ Camera(proc[p]) = <<0, 2, 0, 0, 6, 0, 0, 0, 2>>

\* magnitudes of rotations: quarter and half turns, either way
Turns == {k * QuarterTurn : k \in {-2, -1, 1, 2}}

\* C18: while the motion mode is walk, an idle tick that reads a movement
\* or turn command leaves the Y coordinate of P as it was, and so does the
\* navigation call of every turn command; a tick changes the height of the
\* camera only by a viewpoint command or reset_viewpoint.
C18_WalkCommands ==
    [][\A p \in DOMAIN proc :
          LET s == proc[p]
              s2 == proc'[p]
          IN  (s.motion_mode = "W" /\ StepIdle(p)) =>
                 /\ (Handed(s, s2) /\ LastWords(s2)[1] \in MoveCommands \union TurnCommands)
                       => s2.CY = s.CY
                 /\ s2.CY # s.CY =>
                       InLog(s2, "set_viewpoint") \/ InLog(s2, "reset_viewpoint")
                 /\ \A c \in TurnCommands : \A a \in Turns :
                       NavOp(s, c, a).CY = s.CY]_vars

\* in walk mode a viewpoint command has raised the camera and a move_up
\* command has then been applied, leaving it at that height
C18_Witness ==
    \E p \in DOMAIN proc :
       /\ proc[p].motion_mode = "W"
       /\ proc[p].consumed =
             << <<"viewpoint", "0", "1", "0", "0", "3", "0", "0", "0", "1">>,
                <<"move_up", "1">> >>
       /\ InLog(proc[p], "applied")
       /\ proc[p].CY = 2

\* C19: from any camera with P # T, in every motion mode, move_forward (d)
\* followed by move_forward (-d) gives back P and T, and so does the
\* interpreter applying "move_forward m" and then "move_backward m".
C19_ForwardBack ==
    \A p \in DOMAIN proc :
       LET s == proc[p]
       IN  (Running(p) /\ ~NoCamera(s) /\ P(s) # T(s)) =>
              /\ \A d \in Distances :
                    LET b == move_forward(move_forward(s, d), -d)
                    IN  b.status = "running" /\ P(b) = P(s) /\ T(b) = T(s)
              /\ \A m \in {"1", "2", "-1"} :
                    LET a == interpret(s, <<"move_forward", m>>, now, FALSE)
                        b == interpret(a, <<"move_backward", m>>, now, FALSE)
                    IN  b.status = "running" /\ P(b) = P(s) /\ T(b) = T(s)

\* in view mode the script's "move_forward 1" and "move_backward 1" have
\* both been applied and the camera is back where it started
C19_Witness ==
    \E p \in DOMAIN proc :
       /\ proc[p].motion_mode = "V"
       /\ proc[p].consumed = << <<"move_forward", "1">>, <<"move_backward", "1">> >>
       /\ InLog(proc[p], "applied")
       /\ Camera(proc[p]) = Camera(Globals)

\* the view is not vertical
NonVertical(s) == s.VX # s.CX \/ s.VZ # s.CZ

\* C20: from any camera with P # T and a view that is not vertical, in
\* every motion mode, rotate_horizontally (a) followed by
\* rotate_horizontally (-a) gives back P and T.
C20_TurnBack ==
    \A p \in DOMAIN proc :
       LET s == proc[p]
       IN  (Running(p) /\ ~NoCamera(s) /\ P(s) # T(s) /\ NonVertical(s)) =>
              \A a \in Turns :
                 LET b == rotate_horizontally(rotate_horizontally(s, a), -a)
                 IN  b.status = "running" /\ P(b) = P(s) /\ T(b) = T(s)

\* in view mode the key for a turn to the right, pressed after one event
\* that turned the camera to the left, has brought the camera back to the
\* viewpoint the program set
C20_Witness ==
    \E p \in DOMAIN proc :
       /\ proc[p].motion_mode = "V"
       /\ proc[p].last_key = "s"
       /\ proc[p].log = <<"key", "redraw">>
       /\ proc[p].events = 2
       /\ proc[p].consumed = << >>
       /\ proc[p].lastx = None
       /\ Camera(proc[p]) = proc[p].first_vp

\* the kinds of keymap line, and what a definition line "k1 ... kn: cmd"
\* lists
IsBlank(raw) == strip(raw) = << >>

IsComment(raw) == ~IsBlank(raw) /\ StartsWithHash(strip(raw)[1])

IsDefinition(raw) ==
    ~IsBlank(raw) /\ ~IsComment(raw) /\ Len(split_colon(strip(raw))) = 2

KeysOf(raw) == split(split_colon(strip(raw))[1])

CmdOf(raw) == text(strip(split_colon(strip(raw))[2]))

Listed(raw) == {KeysOf(raw)[i] : i \in 1..Len(KeysOf(raw))}

Latest(S) == CHOOSE i \in S : \A j \in S : j <= i

\* table t2 has the entries of table t for x, no more and no other
SameEntry(t, t2, x) ==
    /\ x \in DOMAIN t2 <=> x \in DOMAIN t
    /\ x \in DOMAIN t => t2[x] = t[x]

\* C21: load_keys on a file of blank lines, comment lines and definition
\* lines "k1 ... kn: cmd" leaves every key bound to the command of the last
\* definition line that lists it and every command bound to the last key
\* of its last definition line; keys and commands that no definition line
\* names keep the entries they had, so blank and comment lines add none.
C21_LoadKeys ==
    [][\A p \in DOMAIN proc :
          LET s == proc[p]
              s2 == proc'[p]
              f == s2.keymap
              defs == {i \in 1..Len(f) : IsDefinition(f[i])}
          IN  (/\ InLog(s2, "load_keys")
               /\ \A i \in 1..Len(f) :
                     IsBlank(f[i]) \/ IsComment(f[i]) \/ IsDefinition(f[i])) =>
              /\ s2.status = "running"
              /\ \A k \in DOMAIN s.key_table \union DOMAIN s2.key_table
                          \union UNION {Listed(f[i]) : i \in defs} :
                    LET on == {i \in defs : k \in Listed(f[i])}
                    IN  IF on = {} THEN SameEntry(s.key_table, s2.key_table, k)
                        ELSE /\ k \in DOMAIN s2.key_table
                             /\ s2.key_table[k] = CmdOf(f[Latest(on)])
              /\ \A c \in DOMAIN s.cmd_table \union DOMAIN s2.cmd_table
                          \union {CmdOf(f[i]) : i \in defs} :
                    LET on == {i \in defs : CmdOf(f[i]) = c /\ KeysOf(f[i]) # << >>}
                    IN  IF on = {} THEN SameEntry(s.cmd_table, s2.cmd_table, c)
                        ELSE /\ c \in DOMAIN s2.cmd_table
                             /\ s2.cmd_table[c] =
                                   KeysOf(f[Latest(on)])[Len(KeysOf(f[Latest(on)]))]]_vars

\* a file "a b: move_up" / "b c: move_down" has been loaded: b has moved to
\* the later command and each command has its last key
C21_Witness ==
    \E p \in DOMAIN proc :
       /\ proc[p].keymap = << <<" ", "a", " ", "b", ":", " ", "move_up", " ">>,
                              <<"b", " ", "c", ":", "move_down">> >>
       /\ proc[p].key_table =
             ("a" :> "move_up") @@ ("b" :> "move_down") @@ ("c" :> "move_down")
       /\ proc[p].cmd_table = ("move_up" :> "b") @@ ("move_down" :> "c")

\* C22: in every reachable state the camera position and the look-at point
\* differ, and no navigation operation has been called on a view vector of
\* length zero.
C22_Distinct ==
    \A p \in DOMAIN proc :
       /\ ~NoCamera(proc[p]) => P(proc[p]) # T(proc[p])
       /\ proc[p].error # "ZeroDivisionError"

\* C23: an idle tick that reads a line that is exactly "help" or "quit"
\* handles it itself: the line is offered neither to the command callback
\* nor to the keyboard callback, registered or not, whatever they would
\* answer.
C23_HelpQuitFirst ==
    [][\A p \in DOMAIN proc :
          (/\ StepIdle(p)
           /\ Handed(proc[p], proc'[p])
           /\ LastWords(proc'[p]) \in {<<"help">>, <<"quit">>}) =>
          LET s2 == proc'[p]
          IN  /\ ~InLog(s2, "command_callback")
              /\ ~InLog(s2, "keyboard_callback")
              /\ ~InLog(s2, "handled")
              /\ ~InLog(s2, "builtin")
              /\ LastWords(s2) = <<"quit">> =>
                    s2.status = "exited" /\ s2.exit_code = 0
              /\ LastWords(s2) = <<"help">> => InLog(s2, "help")]_vars

\* with both callbacks registered and "quit" bound to a key, a "quit" line
\* of the script has ended the process
C23_Witness ==
    \E p \in DOMAIN proc :
       /\ proc[p].command_callback /\ proc[p].keyboard_callback
       /\ "quit" \in DOMAIN proc[p].cmd_table
       /\ proc[p].log = <<"waiting", "poll", "quit">>
       /\ proc[p].status = "exited"

\* the command callback was offered the line of this tick and handled it
CommandHandled(s2) ==
    \E i \in 1..(Len(s2.log) - 1) :
       s2.log[i] = "command_callback" /\ s2.log[i + 1] = "handled"

\* C24: an idle tick in which the command callback reports a non-empty
\* line as handled does not run the built-in interpreter for it: the
\* keyboard callback is not asked, CameraState is as before, a redraw is
\* requested, and the pacing deadline is set to now + pause if pause > 0
\* and left alone otherwise.
C24_CommandHandled ==
    [][\A p \in DOMAIN proc :
          (StepIdle(p) /\ Handed(proc[p], proc'[p]) /\ CommandHandled(proc'[p])) =>
          LET s == proc[p]
              s2 == proc'[p]
          IN  /\ s2.status = "running"
              /\ ~InLog(s2, "keyboard_callback")
              /\ ~InLog(s2, "builtin")
              /\ ~InLog(s2, "applied")
              /\ CameraState(s2) = CameraState(s)
              /\ InLog(s2, "redraw")
              /\ IF s.pause > 0 THEN s2.wait_until = now + s.pause
                 ELSE s2.wait_until = s.wait_until /\ s2.armed_at = s.armed_at]_vars

\* the command callback has handled "move_forward 1" while a keyboard
\* callback was registered and the command bound to a key; the camera has
\* not moved and the controller is busy
C24_Witness ==
    \E p \in DOMAIN proc :
       /\ proc[p].log = <<"waiting", "poll", "command_callback", "handled", "redraw">>
       /\ proc[p].last_data = << <<"move_forward", "1">> >>
       /\ proc[p].keyboard_callback
       /\ "move_forward" \in DOMAIN proc[p].cmd_table
       /\ Camera(proc[p]) = Camera(Globals)
       /\ waiting(proc[p], now)

\* the keyboard callback was offered a key in this tick and handled it
KeyHandled(s2) ==
    \E i \in 1..(Len(s2.log) - 1) :
       s2.log[i] = "keyboard_callback" /\ s2.log[i + 1] = "handled"

\* C25: with a keyboard callback registered, an idle tick whose line
\* reaches the interpreter and begins with a command of the command->key
\* table offers the callback the key bound to that command before the
\* built-in vocabulary is tried.  If the callback handles it, no built-in
\* operation is applied and the deadline is set to now + pause when
\* pause > 0; if not, the built-in vocabulary is applied to the same line.
C25_KeyboardCallback ==
    [][\A p \in DOMAIN proc :
          LET s == proc[p]
              s2 == proc'[p]
              w == LastWords(s2)
          IN  (/\ StepIdle(p)
               /\ Handed(s, s2)
               /\ s.keyboard_callback
               /\ w[1] \in DOMAIN s.cmd_table
               /\ w \notin {<<"help">>, <<"quit">>}
               /\ ~CommandHandled(s2)) =>
              /\ InLog(s2, "keyboard_callback")
              /\ s2.offered = s.cmd_table[w[1]]
              /\ \A i \in 1..Len(s2.log) :
                    s2.log[i] = "builtin" =>
                       \E j \in 1..(i - 1) : s2.log[j] = "keyboard_callback"
              /\ IF KeyHandled(s2)
                 THEN /\ ~InLog(s2, "builtin")
                      /\ CameraState(s2) = CameraState(s)
                      /\ s2.status = "running"
                      /\ InLog(s2, "redraw")
                      /\ s.pause > 0 => s2.wait_until = now + s.pause
                 ELSE /\ InLog(s2, "builtin")
                      /\ CameraState(s2) = CameraState(builtin(s, w).s)
                      /\ s2.status = builtin(s, w).s.status]_vars

\* the keyboard callback was offered "p" for "move_forward 1" and declined,
\* and the built-in move_forward has moved the camera
C25_Witness ==
    \E p \in DOMAIN proc :
       /\ proc[p].log = <<"waiting", "poll", "keyboard_callback", "builtin",
                          "applied", "redraw">>
       /\ proc[p].offered = "p"
       /\ proc[p].last_data = << <<"move_forward", "1">> >>
       /\ proc[p].CZ = 2

\* C26 as stated, with pause read when the tick begins: an idle tick that
\* applies a command while pause > 0 leaves wait_until = now + pause and a
\* redraw requested, and while pause <= 0 leaves the deadline unchanged.
\* The command `pause` itself changes the duration before the arming test.
C26_PauseAtEntry ==
    [][\A p \in DOMAIN proc :
          (StepIdle(p) /\ InLog(proc'[p], "applied")) =>
          LET s == proc[p]
              s2 == proc'[p]
          IN  IF s.pause > 0
              THEN s2.wait_until = now + s.pause /\ InLog(s2, "redraw")
              ELSE s2.wait_until = s.wait_until]_vars

\* C26: an idle tick that applies a built-in command requests a redraw and,
\* when the pause in force after the command is positive, leaves
\* wait_until = now + that pause, so that the controller is busy when the
\* tick returns; an idle tick that ends with pause <= 0 leaves the deadline
\* as it was.
C26_Armed ==
    [][\A p \in DOMAIN proc :
          StepIdle(p) =>
          LET s == proc[p]
              s2 == proc'[p]
          IN  /\ InLog(s2, "applied") =>
                    /\ InLog(s2, "redraw")
                    /\ s2.pause > 0 =>
                          /\ s2.wait_until = now + s2.pause
                          /\ waiting(s2, now)
              /\ s2.pause <= 0 =>
                    /\ s2.wait_until = s.wait_until
                    /\ s2.armed_at = s.armed_at]_vars

\* at a time after the start, walk_mode has been applied under a positive
\* pause and the controller is busy until now + pause
C26_Witness ==
    \E p \in DOMAIN proc :
       /\ now > 0
       /\ proc[p].log = <<"waiting", "poll", "builtin", "applied", "redraw">>
       /\ proc[p].last_data = << <<"walk_mode">> >>
       /\ proc[p].pause > 0
       /\ proc[p].armed_at = now
       /\ proc[p].wait_until = now + proc[p].pause

\* the keys and cursor keys that call rotate_horizontally or
\* rotate_vertically and nothing else
RotationKeys == {"a", "s", "d", "e", "GLUT_KEY_LEFT", "GLUT_KEY_RIGHT"}

\* C27: a step in which a rotation key or cursor key is handled, that is a
\* call of rotate_horizontally or rotate_vertically, leaves the camera
\* position P as it was in fly and walk mode, and leaves the look-at point
\* T as it was in view mode.
C27_RotationCentre ==
    [][\A p \in DOMAIN proc :
          LET s == proc[p]
              s2 == proc'[p]
          IN  (InLog(s2, "key") /\ s2.events = s.events + 1
               /\ s2.last_key \in RotationKeys) =>
                 /\ s2.motion_mode = s.motion_mode
                 /\ s.motion_mode \in {"F", "W"} => P(s2) = P(s)
                 /\ s.motion_mode = "V" => T(s2) = T(s)]_vars

\* in view mode one turn upwards has moved the camera and left the look-at
\* point of the viewpoint the program set
C27_Witness ==
    \E p \in DOMAIN proc :
       /\ proc[p].motion_mode = "V"
       /\ proc[p].last_key = "e"
       /\ proc[p].log = <<"key", "redraw">>
       /\ proc[p].events = 1
       /\ proc[p].consumed = << >>
       /\ T(proc[p]) = SubSeq(proc[p].first_vp, 4, 6)
       /\ P(proc[p]) # SubSeq(proc[p].first_vp, 1, 3)

\* C28: from any camera in fly mode with P # T and a view that is not
\* vertical, the Left cursor key and the command turn_left leave the same
\* camera, and so do the Right cursor key and the command turn_right.
C28_SameTurn ==
    \A p \in DOMAIN proc :
       LET s == proc[p]
       IN  (Running(p) /\ s.motion_mode = "F" /\ ~NoCamera(s) /\ P(s) # T(s)
            /\ NonVertical(s)) =>
              /\ builtin(s, <<"turn_left">>).s.status = "running"
              /\ Camera(builtin(s, <<"turn_left">>).s) = Camera(special(s, "GLUT_KEY_LEFT"))
              /\ builtin(s, <<"turn_right">>).s.status = "running"
              /\ Camera(builtin(s, <<"turn_right">>).s) = Camera(special(s, "GLUT_KEY_RIGHT"))

\* C29: an idle tick that reads an operational command with a valid
\* argument applies it, and after the tick the setting has the value of the
\* argument: pause, the saving mode, save_template, save_frame_number and
\* seed.
C29_Settings ==
    [][\A p \in DOMAIN proc :
          LET s == proc[p]
              s2 == proc'[p]
              w == LastWords(s2)
          IN  (StepIdle(p) /\ Handed(s, s2) /\ w \in OpsLines) =>
                 /\ s2.status = "running"
                 /\ InLog(s2, "applied")
                 /\ w[1] = "pause" => s2.pause = float(w[2])
                 /\ w = <<"save", "on">> => s2.saving_mode
                 /\ w = <<"save", "off">> => ~s2.saving_mode
                 /\ w[1] = "save_template" => s2.save_template = w[2]
                 /\ w[1] = "save_frame" => s2.save_frame_number = int(w[2])
                 /\ w[1] = "seed" => s2.seed = int(w[2])]_vars

\* this step is the handling of a local input event
StepLocal(s, s2) == s2.events = s.events + 1

\* C30: a local keyboard, cursor-key or pointer event is handled whether or
\* not the pacing controller is busy: while it is busy the key "p" and the
\* Up cursor key move the camera forward by the default step and the key
\* "a" and the Left cursor key turn it by the default angle, and a redraw
\* is requested.  No local event changes the pacing deadline or the pause.
\* An idle tick while the controller is busy reads no command and leaves
\* the camera as it was.
C30_LocalUnpaced ==
    [][\A p \in DOMAIN proc :
          LET s == proc[p]
              s2 == proc'[p]
          IN  /\ StepLocal(s, s2) =>
                    /\ s2.status = "running"
                    /\ InLog(s2, "redraw")
                    /\ s2.wait_until = s.wait_until
                    /\ s2.armed_at = s.armed_at
                    /\ s2.pause = s.pause
                    /\ s2.consumed = s.consumed
                    /\ (waiting(s, now) /\ InLog(s2, "key")) =>
                          /\ s2.last_key \in {"p", "GLUT_KEY_UP"} =>
                                /\ Camera(s2) = Camera(move_forward(s, s.default_step))
                                /\ P(s2) # P(s)
                          /\ s2.last_key \in {"a", "GLUT_KEY_LEFT"} =>
                                /\ Camera(s2) = Camera(rotate_horizontally(s, s.default_angle))
                                /\ T(s2) # T(s)
                    /\ (waiting(s, now) /\ InLog(s2, "mouse")
                        /\ (s2.lastx # s.lastx \/ s2.lasty # s.lasty)) =>
                          Camera(s2) # Camera(s)
              /\ (StepIdle(p) /\ waiting(s, now)) =>
                    /\ s2.consumed = s.consumed
                    /\ CameraState(s2) = CameraState(s)]_vars

\* the script's first move_forward was applied at time 0 and armed the
\* controller until time 2; the key "a" turned the camera at time 1, while
\* the controller was busy; the second move_forward was applied at time 2,
\* along the turned view
C30_Witness ==
    \E p \in DOMAIN proc :
       /\ Len(proc[p].consumed) = 2
       /\ proc[p].events = 1
       /\ proc[p].last_key = "a"
       /\ proc[p].local_at = 1
       /\ proc[p].armed_at = 2
       /\ proc[p].log = <<"waiting", "poll", "builtin", "applied", "redraw">>
       /\ proc[p].CZ = 2
       /\ proc[p].CX # 0

\* C31: an idle tick that reads a viewpoint line whose word count is not 10
\* or 11 leaves CameraState as it was and completes as for an applied
\* command: a redraw is requested and, when pause > 0, the deadline is set
\* to now + pause.  An idle tick that reads an unknown word or a blank line
\* requests no redraw and leaves the deadline as it was.
C31_MiscountedArms ==
    [][\A p \in DOMAIN proc :
          LET s == proc[p]
              s2 == proc'[p]
          IN  /\ (/\ StepIdle(p)
                  /\ Handed(s, s2)
                  /\ LastWords(s2)[1] = "viewpoint"
                  /\ ~viewpoint_count_ok(LastWords(s2))) =>
                    /\ s2.status = "running"
                    /\ CameraState(s2) = CameraState(s)
                    /\ InLog(s2, "applied")
                    /\ InLog(s2, "redraw")
                    /\ IF s.pause > 0
                       THEN s2.wait_until = now + s.pause /\ waiting(s2, now)
                       ELSE s2.wait_until = s.wait_until
              /\ (/\ StepIdle(p)
                  /\ ~waiting(s, now)
                  /\ \/ EmptyPoll(s)
                     \/ Handed(s, s2) /\ LastWords(s2)[1] \notin Vocabulary) =>
                    /\ s2.status = "running"
                    /\ ~InLog(s2, "applied")
                    /\ ~InLog(s2, "redraw")
                    /\ s2.wait_until = s.wait_until]_vars

\* at a time after the start a viewpoint line of seven words has armed the
\* controller under a positive pause, with the camera still the initial one
C31_Witness ==
    \E p \in DOMAIN proc :
       /\ now > 0
       /\ proc[p].log = <<"waiting", "poll", "builtin", "applied", "redraw">>
       /\ proc[p].last_data = << <<"viewpoint", "2", "0", "0", "0", "0", "0">> >>
       /\ proc[p].pause > 0
       /\ proc[p].armed_at = now
       /\ proc[p].wait_until = now + proc[p].pause
       /\ Camera(proc[p]) = Camera(Globals)
       /\ SnapshotUnset(proc[p])

\* every line of the script has been read and the script has been closed
ScriptDone(s) == s.file_pos = Len(stream) /\ ~s.play /\ s.closes = 1

\* C32: playing a finite script of commands of the documented form, without
\* quit, with the idle callback called again and again and time advancing,
\* every line of the script is eventually read and handed to the
\* interpreter, and the script is eventually closed and no longer read.
C32_ScriptConsumed ==
    <>(\A p \in DOMAIN proc :
          /\ ScriptDone(proc[p])
          /\ Len(proc[p].consumed) = Len(stream))

====
